---- MODULE Spec2Model ----
(***************************************************************************)
(* Completion bridging of libsignal's bridge layer:                        *)
(*   rust/bridge/shared/src/ffi/futures.rs  (PromiseCompleter, C callback) *)
(*   rust/bridge/shared/src/jni/futures.rs  (FutureCompleter, Java future) *)
(* Every task is one call of run_future_on_runtime together with the       *)
(* computation it spawns and the Completer that computation owns.          *)
(***************************************************************************)
EXTENDS Integers, Sequences, FiniteSets, TLC

\* ------------------------------------------------------------------ bounds
NumTasks == 2
MaxSteps == 2
MaxValue == 2
NumThreads == 2

Tasks == 1..NumTasks
Values == 1..MaxValue
Threads == 1..NumThreads
Payloads == {"boom", "bang"}
DomainErrors == {"domain"}
Contexts == {"ctxA", "ctxB"}
Outcomes == {"ok", "err", "panic"}

\* std::ptr::null() / std::ptr::null_mut()
NULL == 0

\* ------------------------------------------------------------------ values
NoErr == [kind |-> "None", info |-> "none"]
DomainError(e) == [kind |-> "Domain", info |-> e]
ConversionError == [kind |-> "Conversion", info |-> "convert_into"]
JniError(what) == [kind |-> "Jni", info |-> what]
UnexpectedPanic(p) == [kind |-> "UnexpectedPanic", info |-> p]

Ok(v) == [tag |-> "Ok", val |-> v, err |-> NoErr]
Err(e) == [tag |-> "Err", val |-> NULL, err |-> e]
OkUnit == [tag |-> "Ok", val |-> NULL, err |-> NoErr]
NoResult == [tag |-> "None", val |-> NULL, err |-> NoErr]

\* How a call ends: it returns a Result, or it unwinds with a panic payload.
Ret(r) == [kind |-> "ret", res |-> r, payload |-> "none"]
Panic(p) == [kind |-> "panic", res |-> NoResult, payload |-> p]
Pending == [kind |-> "pending", res |-> NoResult, payload |-> "none"]

\* What a computation can end with: Ok(v), Err(domain error) or a panic.
InnerEnds ==
    {Ret(Ok(v)) : v \in Values}
        \cup {Ret(Err(DomainError(e))) : e \in DomainErrors}
        \cup {Panic(p) : p \in Payloads}

\* The wire representation ResultTypeInfo::convert_into produces for v.
Convert(v) == 2 * v + 1

\* result.convert_into(): it returns the converted value, returns an error, or panics.
ConvertInto(v, outcome, p) ==
    CASE outcome = "ok" -> Ret(Ok(Convert(v)))
      [] outcome = "err" -> Ret(Err(ConversionError))
      [] outcome = "panic" -> Panic(p)

\* Mutant of CatchUnwindSync: a caught panic is reported as a conversion error.
CatchUnwindSyncAsConversionError(call) ==
    IF call.kind = "panic" THEN Err(ConversionError) ELSE call.res

\* std::panic::catch_unwind(f).unwrap_or_else(|panic| Err(UnexpectedPanic(panic)))
CatchUnwindSync(call) ==
    IF call.kind = "panic" THEN Err(UnexpectedPanic(call.payload)) ELSE call.res

\* One poll of a computation with `steps` suspension points left that ends with `end`.
PollInner(f) ==
    IF f.steps > 0 THEN Pending ELSE f.end

\* Mutant of FfiCatchUnwind: the poll is not protected, a panic passes through.
FfiCatchUnwindPassesPanic(f) ==
    PollInner(f)

\* ffi::catch_unwind, one poll of future.catch_unwind().unwrap_or_else(|panic|
\* Err(SignalFfiError::UnexpectedPanic(panic))): Pending stays Pending, a panic of
\* the poll becomes Ready(Err(UnexpectedPanic(payload))), Ready(output) is passed on.
FfiCatchUnwind(f) ==
    LET r == PollInner(f)
    IN  CASE r.kind = "pending" -> Pending
          [] r.kind = "panic" -> Ret(Err(UnexpectedPanic(r.payload)))
          [] r.kind = "ret" -> Ret(r.res)

\* Mutant of JniCatchUnwind: the captured payload is not carried in the error.
JniCatchUnwindNoPayload(f) ==
    LET r == PollInner(f)
    IN  CASE r.kind = "pending" -> Pending
          [] r.kind = "panic" -> Ret(Err(UnexpectedPanic("none")))
          [] r.kind = "ret" -> Ret(r.res)

\* Mutant of JniCatchUnwind: the poll is not protected, a panic passes through.
JniCatchUnwindPassesPanic(f) ==
    PollInner(f)

\* jni::catch_unwind, the same with SignalJniError::UnexpectedPanic.
JniCatchUnwind(f) ==
    LET r == PollInner(f)
    IN  CASE r.kind = "pending" -> Pending
          [] r.kind = "panic" -> Ret(Err(UnexpectedPanic(r.payload)))
          [] r.kind = "ret" -> Ret(r.res)

\* The poll of the spawned computation: isolated at its outermost layer or not.
PollComputation(v, f) ==
    IF ~f.isolated THEN PollInner(f)
    ELSE IF v = "ffi" THEN FfiCatchUnwind(f) ELSE JniCatchUnwind(f)

NoFuture ==
    [steps |-> 0, end |-> Pending, isolated |-> FALSE, callsComplete |-> FALSE]

\* Mutant of PromiseArgs: the error branch also passes a result pointer.
PromiseArgsBothSlots(r, ctx) ==
    IF r.tag = "Ok"
    THEN [outcome |-> "ok", op |-> "promise", target |-> NULL, error |-> NoErr, result |-> r.val,
          context |-> ctx]
    ELSE [outcome |-> "ok", op |-> "promise", target |-> NULL, error |-> r.err,
          result |-> Convert(r.val), context |-> ctx]

\* The arguments of promise(error, result, context) for a converted result.
PromiseArgs(r, ctx) ==
    IF r.tag = "Ok"
    THEN [outcome |-> "ok", op |-> "promise", target |-> NULL, error |-> NoErr, result |-> r.val,
          context |-> ctx]
    ELSE [outcome |-> "ok", op |-> "promise", target |-> NULL, error |-> r.err, result |-> NULL,
          context |-> ctx]

\* A call of a method of the Java future `target` through call_method_checked.
JavaCall(target, method, value, error, outcome) ==
    [outcome |-> outcome, op |-> method, target |-> target, error |-> error, result |-> value,
     context |-> "none"]

\* ------------------------------------------------------------------ state
VARIABLES
    build,        \* "debug" | "release": whether debug_assert! is compiled in
    pc,           \* each task's position
    variant,      \* "none" | "ffi" | "jni"
    givenContext, \* the promise_context the caller gave run_future_on_runtime
    driverRet,    \* what run_future_on_runtime returned to its caller
    makeCalls,    \* calls of make_future
    runCalls,     \* computations handed to runtime.run_future
    jobject,      \* the Java future object created by new_object (0: none)
    completer,    \* "none" | "Created" | "Consumed" | "LeakDiagnosed" | "Dropped"
    armed,        \* the Drop check of the Completer will run if it is dropped
    handle,       \* the destination the Completer holds: context, future reference
    fut,          \* the spawned computation
    worker,       \* the thread of the last poll (0: never polled)
    output,       \* the output of the (wrapped) computation once ready
    completeCalls, \* calls of complete on the task's Completer
    input,        \* the result given to complete
    result,       \* complete's local `result` / `maybe_error`
    conv,         \* how convert_into ended: "none" | "ok" | "err" | "panic"
    attach,       \* how attach_current_thread ended: "none" | "ok" | "fail"
    attached,     \* the worker thread is attached to the JVM by complete
    throwable,    \* how convert_to_exception ended: "none" | "ok" | "err" | "panic"
    calls,        \* the invocations the destination has seen, in order
    logs,         \* log::error! entries
    diag,         \* the leak diagnostic: "none" | "assert" | "log"
    panicOut,     \* a panic that left the computation: "none" | "computation" | "complete"
    released      \* what complete or a drop released, and whether attached then

driverVars == <<variant, givenContext, driverRet, makeCalls, runCalls, jobject>>
completerVars == <<completer, armed, handle>>
futVars == <<fut, worker, output>>
completeVars == <<input, result, conv, attach, attached, throwable>>
destVars == <<calls, logs>>
obsVars == <<diag, panicOut, released>>

vars ==
    <<build, pc, driverVars, completerVars, futVars, completeCalls, completeVars,
      destVars, obsVars>>

NoHandle == [context |-> "none", future |-> NULL]

Init ==
    /\ build \in {"debug", "release"}
    /\ pc = [t \in Tasks |-> "idle"]
    /\ variant = [t \in Tasks |-> "none"]
    /\ givenContext = [t \in Tasks |-> "none"]
    /\ completeCalls = [t \in Tasks |-> 0]
    /\ driverRet = [t \in Tasks |-> NoResult]
    /\ makeCalls = [t \in Tasks |-> 0]
    /\ runCalls = [t \in Tasks |-> 0]
    /\ jobject = [t \in Tasks |-> NULL]
    /\ completer = [t \in Tasks |-> "none"]
    /\ armed = [t \in Tasks |-> FALSE]
    /\ handle = [t \in Tasks |-> NoHandle]
    /\ fut = [t \in Tasks |-> NoFuture]
    /\ worker = [t \in Tasks |-> 0]
    /\ output = [t \in Tasks |-> NoResult]
    /\ input = [t \in Tasks |-> NoResult]
    /\ result = [t \in Tasks |-> NoResult]
    /\ conv = [t \in Tasks |-> "none"]
    /\ attach = [t \in Tasks |-> "none"]
    /\ attached = [t \in Tasks |-> FALSE]
    /\ throwable = [t \in Tasks |-> "none"]
    /\ calls = [t \in Tasks |-> <<>>]
    /\ logs = [t \in Tasks |-> {}]
    /\ diag = [t \in Tasks |-> "none"]
    /\ panicOut = [t \in Tasks |-> "none"]
    /\ released = [t \in Tasks |-> {}]

\* ------------------------------------------------------------------ drivers
\* The computation make_future builds around the Completer it is given.
MakeFuture(isolated, callsComplete, steps, end) ==
    [steps |-> steps, end |-> end, isolated |-> isolated,
     callsComplete |-> callsComplete]

\* The computations make_future may build.
Futures ==
    {MakeFuture(isolated, callsComplete, steps, end) :
        isolated \in BOOLEAN, callsComplete \in BOOLEAN,
        steps \in 0..MaxSteps, end \in InnerEnds}

\* Mutant of NewPromiseCompleter: the context is not stored in the Completer.
NewPromiseCompleterNoContext(ctx) ==
    [context |-> "none", future |-> NULL]

\* PromiseCompleter { promise, promise_context }
NewPromiseCompleter(ctx) ==
    [context |-> ctx, future |-> NULL]

\* ffi::run_future_on_runtime for a promise_context of ctxs and a computation of
\* futs: build the Completer, make the computation, hand it to the runtime.
FfiRunWith(t, ctxs, futs) ==
    /\ pc[t] = "idle"
    /\ \E ctx \in ctxs, f \in futs :
          /\ givenContext' = [givenContext EXCEPT ![t] = ctx]
          /\ handle' = [handle EXCEPT ![t] = NewPromiseCompleter(ctx)]
          /\ fut' = [fut EXCEPT ![t] = f]
    /\ variant' = [variant EXCEPT ![t] = "ffi"]
    /\ completer' = [completer EXCEPT ![t] = "Created"]
    /\ armed' = [armed EXCEPT ![t] = TRUE]
    /\ makeCalls' = [makeCalls EXCEPT ![t] = @ + 1]
    /\ runCalls' = [runCalls EXCEPT ![t] = @ + 1]
    /\ driverRet' = [driverRet EXCEPT ![t] = OkUnit]
    /\ pc' = [pc EXCEPT ![t] = "spawned"]
    /\ UNCHANGED <<build, completeCalls, jobject, worker, output, completeVars,
                   destVars, obsVars>>

\* ffi::run_future_on_runtime with any context and any computation.
FfiRunFutureOnRuntime(t) ==
    FfiRunWith(t, Contexts, Futures)

\* Mutant of FutureCompleterNew: the result of new_global_ref is not checked.
FutureCompleterNewUnchecked(object, vmOk, refOk) ==
    IF ~vmOk THEN Err(JniError("get_java_vm"))
    ELSE Ok(IF refOk THEN object ELSE NULL)

\* FutureCompleter::new: get_java_vm()? then new_global_ref(future)?
FutureCompleterNew(object, vmOk, refOk) ==
    IF ~vmOk THEN Err(JniError("get_java_vm"))
    ELSE IF ~refOk THEN Err(JniError("new_global_ref"))
    ELSE Ok(object)

\* Mutant of NewObject: every call gets the same Java future.
NewObjectShared(t) == CHOOSE object \in Tasks : TRUE

\* new_object(env, CompletableFuture, ..): a fresh object for each call.
NewObject(t) == t

\* jni::run_future_on_runtime for a computation of futs: new_object(..)?,
\* FutureCompleter::new(..)?, then runtime.run_future(make_future(completer)) and
\* Ok(java_future).
JniRunWith(t, futs) ==
    /\ pc[t] = "idle"
    /\ variant' = [variant EXCEPT ![t] = "jni"]
    /\ \E newOk \in BOOLEAN, vmOk \in BOOLEAN, refOk \in BOOLEAN, f \in futs :
          IF ~newOk
          THEN /\ driverRet' = [driverRet EXCEPT ![t] = Err(JniError("new_object"))]
               /\ pc' = [pc EXCEPT ![t] = "driver_failed"]
               /\ UNCHANGED <<jobject, makeCalls, runCalls, completerVars, fut>>
          ELSE LET made == FutureCompleterNew(NewObject(t), vmOk, refOk)
               IN  /\ jobject' = [jobject EXCEPT ![t] = NewObject(t)]
                   /\ IF made.tag = "Err"
                      THEN /\ driverRet' = [driverRet EXCEPT ![t] = made]
                           /\ pc' = [pc EXCEPT ![t] = "driver_failed"]
                           /\ UNCHANGED <<makeCalls, runCalls, completerVars, fut>>
                      ELSE /\ completer' = [completer EXCEPT ![t] = "Created"]
                           /\ handle' = [handle EXCEPT
                                 ![t] = [context |-> "none", future |-> made.val]]
                           /\ UNCHANGED armed
                           /\ makeCalls' = [makeCalls EXCEPT ![t] = @ + 1]
                           /\ fut' = [fut EXCEPT ![t] = f]
                           /\ runCalls' = [runCalls EXCEPT ![t] = @ + 1]
                           /\ driverRet' = [driverRet EXCEPT ![t] = Ok(NewObject(t))]
                           /\ pc' = [pc EXCEPT ![t] = "spawned"]
    /\ UNCHANGED <<build, completeCalls, givenContext, worker, output, completeVars,
                   destVars, obsVars>>

\* jni::run_future_on_runtime with any computation.
JniRunFutureOnRuntime(t) ==
    JniRunWith(t, Futures)

\* ------------------------------------------------------------------ drops
\* Mutant of PromiseCompleterDrop: the log::error! of release builds is missing.
PromiseCompleterDropSilent(t) ==
    /\ completer' = [completer EXCEPT ![t] = "LeakDiagnosed"]
    /\ armed' = [armed EXCEPT ![t] = FALSE]
    /\ IF build = "debug"
       THEN diag' = [diag EXCEPT ![t] = "assert"]
       ELSE UNCHANGED diag
    /\ UNCHANGED <<handle, released, logs>>

\* impl Drop for PromiseCompleter: debug_assert!(false, ..) and then log::error!(..).
PromiseCompleterDrop(t) ==
    /\ completer' = [completer EXCEPT ![t] = "LeakDiagnosed"]
    /\ armed' = [armed EXCEPT ![t] = FALSE]
    /\ IF build = "debug"
       THEN /\ diag' = [diag EXCEPT ![t] = "assert"]
            /\ UNCHANGED logs
       ELSE /\ diag' = [diag EXCEPT ![t] = "log"]
            /\ logs' = [logs EXCEPT ![t] = @ \cup {"CPromise dropped without completing"}]
    /\ UNCHANGED <<handle, released>>

\* FutureCompleter has no Drop of its own: dropping it drops its fields.
FutureCompleterDrop(t) ==
    /\ completer' = [completer EXCEPT ![t] = "Dropped"]
    /\ released' = [released EXCEPT
          ![t] = @ \cup {[what |-> "future", attached |-> attached[t]]}]
    /\ UNCHANGED <<armed, handle, diag, logs>>

\* The Completer goes out of scope without complete having been called.
DropCompleter(t) ==
    IF variant[t] = "ffi" THEN PromiseCompleterDrop(t) ELSE FutureCompleterDrop(t)

\* Mutant of AfterDrop: the assertion is compiled out of debug builds too.
AfterDropKeepsRunning(t) ==
    "dropped"

\* Where a task is after its Completer was dropped: the debug assertion halts it.
AfterDrop(t) ==
    IF variant[t] = "ffi" /\ build = "debug" THEN "halted" ELSE "dropped"

\* ------------------------------------------------------------------ runtime
\* The runtime polls the computation on worker w and it is not ready yet.
PollPending(t, w) ==
    /\ pc[t] = "spawned"
    /\ PollComputation(variant[t], fut[t]).kind = "pending"
    /\ fut' = [fut EXCEPT ![t].steps = @ - 1]
    /\ worker' = [worker EXCEPT ![t] = w]
    /\ UNCHANGED <<build, completeCalls, pc, driverVars, completerVars, output, completeVars,
                   destVars, obsVars>>

\* The computation is ready and passes its output to completer.complete(..).
PollReady(t, w) ==
    /\ pc[t] = "spawned"
    /\ fut[t].callsComplete
    /\ LET r == PollComputation(variant[t], fut[t])
       IN  /\ r.kind = "ret"
           /\ output' = [output EXCEPT ![t] = r.res]
           /\ input' = [input EXCEPT ![t] = r.res]
           /\ result' = [result EXCEPT ![t] = r.res]
    /\ completeCalls' = [completeCalls EXCEPT ![t] = @ + 1]
    /\ worker' = [worker EXCEPT ![t] = w]
    /\ pc' = [pc EXCEPT ![t] = IF variant[t] = "ffi" THEN "ffi_forget" ELSE "jni_attach"]
    /\ UNCHANGED <<build, driverVars, completerVars, fut, conv, attach, attached,
                   throwable, destVars, obsVars>>

\* The computation is ready and returns without calling complete.
PollReturns(t, w) ==
    /\ pc[t] = "spawned"
    /\ ~fut[t].callsComplete
    /\ LET r == PollComputation(variant[t], fut[t])
       IN  /\ r.kind = "ret"
           /\ output' = [output EXCEPT ![t] = r.res]
    /\ worker' = [worker EXCEPT ![t] = w]
    /\ DropCompleter(t)
    /\ pc' = [pc EXCEPT ![t] = AfterDrop(t)]
    /\ UNCHANGED <<build, completeCalls, driverVars, fut, completeVars, calls, panicOut>>

\* The poll panics: unwinding drops the Completer the computation still owns.
PollPanics(t, w) ==
    /\ pc[t] = "spawned"
    /\ PollComputation(variant[t], fut[t]).kind = "panic"
    /\ worker' = [worker EXCEPT ![t] = w]
    /\ panicOut' = [panicOut EXCEPT ![t] = "computation"]
    /\ DropCompleter(t)
    /\ pc' = [pc EXCEPT ![t] = AfterDrop(t)]
    /\ UNCHANGED <<build, completeCalls, driverVars, fut, output, completeVars, calls>>

\* The runtime drops the computation before it is ready.
RuntimeDrops(t) ==
    /\ pc[t] = "spawned"
    /\ DropCompleter(t)
    /\ pc' = [pc EXCEPT ![t] = AfterDrop(t)]
    /\ UNCHANGED <<build, completeCalls, driverVars, futVars, completeVars, calls, panicOut>>

\* ------------------------------------------------- PromiseCompleter::complete
\* Mutant of FfiForget: self is destructured but not yet forgotten.
FfiForgetLate(t) ==
    /\ pc[t] = "ffi_forget"
    /\ pc' = [pc EXCEPT ![t] = "ffi_convert"]
    /\ UNCHANGED <<build, completeCalls, driverVars, completerVars, futVars,
                   completeVars, destVars, obsVars>>

\* let Self { promise, promise_context } = self; std::mem::forget(self);
FfiForget(t) ==
    /\ pc[t] = "ffi_forget"
    /\ completer' = [completer EXCEPT ![t] = "Consumed"]
    /\ armed' = [armed EXCEPT ![t] = FALSE]
    /\ pc' = [pc EXCEPT ![t] = "ffi_convert"]
    /\ UNCHANGED <<build, completeCalls, driverVars, handle, futVars, completeVars, destVars, obsVars>>

\* Mutant of FfiConvert: map instead of and_then, the conversion runs on an Err too.
FfiConvertAlways(t) ==
    /\ pc[t] = "ffi_convert"
    /\ \E o \in Outcomes, p \in Payloads :
          /\ result' = [result EXCEPT
                ![t] = CatchUnwindSync(ConvertInto(result[t].val, o, p))]
          /\ conv' = [conv EXCEPT ![t] = o]
    /\ pc' = [pc EXCEPT ![t] = "ffi_deliver"]
    /\ UNCHANGED <<build, completeCalls, driverVars, completerVars, futVars, input, attach, attached,
                   throwable, destVars, obsVars>>

\* result.and_then(|result| catch_unwind(|| result.convert_into()).unwrap_or_else(..))
FfiConvert(t) ==
    /\ pc[t] = "ffi_convert"
    /\ IF result[t].tag = "Ok"
       THEN \E o \in Outcomes, p \in Payloads :
               /\ result' = [result EXCEPT
                     ![t] = CatchUnwindSync(ConvertInto(result[t].val, o, p))]
               /\ conv' = [conv EXCEPT ![t] = o]
       ELSE UNCHANGED <<result, conv>>
    /\ pc' = [pc EXCEPT ![t] = "ffi_deliver"]
    /\ UNCHANGED <<build, completeCalls, driverVars, completerVars, futVars, input, attach, attached,
                   throwable, destVars, obsVars>>

\* Mutant of FfiDeliver: the Err arm does not call promise.
FfiDeliverOnlyOk(t) ==
    /\ pc[t] = "ffi_deliver"
    /\ calls' = [calls EXCEPT
          ![t] = IF result[t].tag = "Ok"
                 THEN Append(@, PromiseArgs(result[t], handle[t].context))
                 ELSE @]
    /\ pc' = [pc EXCEPT ![t] = "done"]
    /\ UNCHANGED <<build, completeCalls, driverVars, completerVars, futVars, completeVars, logs, obsVars>>

\* Mutant of FfiDeliver: self was not forgotten, its Drop runs when complete returns.
FfiDeliverThenDrop(t) ==
    /\ pc[t] = "ffi_deliver"
    /\ calls' = [calls EXCEPT ![t] = Append(@, PromiseArgs(result[t], handle[t].context))]
    /\ completer' = [completer EXCEPT ![t] = "LeakDiagnosed"]
    /\ pc' = [pc EXCEPT ![t] = "done"]
    /\ UNCHANGED <<build, completeCalls, driverVars, armed, handle, futVars,
                   completeVars, logs, obsVars>>

\* match result { Ok(value) => promise(null, &value, ctx), Err(err) => promise(err, null, ctx) }
FfiDeliver(t) ==
    /\ pc[t] = "ffi_deliver"
    /\ calls' = [calls EXCEPT ![t] = Append(@, PromiseArgs(result[t], handle[t].context))]
    /\ pc' = [pc EXCEPT ![t] = "done"]
    /\ UNCHANGED <<build, completeCalls, driverVars, completerVars, futVars, completeVars, logs, obsVars>>

\* ------------------------- FutureCompleter::complete_with_extra_args_to_drop
\* What is dropped when the function is left, and whether the thread is attached then.
Release(isAttached) ==
    {[what |-> "future", attached |-> isAttached],
     [what |-> "extra_args", attached |-> isAttached]}

\* Mutant of JniAttach: the Err arm logs and does not return.
JniAttachNoReturn(t) ==
    /\ pc[t] = "jni_attach"
    /\ completer' = [completer EXCEPT ![t] = "Consumed"]
    /\ \E ok \in BOOLEAN :
          IF ok
          THEN /\ attach' = [attach EXCEPT ![t] = "ok"]
               /\ attached' = [attached EXCEPT ![t] = TRUE]
               /\ UNCHANGED logs
          ELSE /\ attach' = [attach EXCEPT ![t] = "fail"]
               /\ logs' = [logs EXCEPT ![t] = @ \cup {"failed to attach to JVM"}]
               /\ UNCHANGED attached
    /\ pc' = [pc EXCEPT ![t] = "jni_convert"]
    /\ UNCHANGED <<build, completeCalls, driverVars, armed, handle, futVars, input, result, conv,
                   throwable, calls, diag, panicOut, released>>

\* let Self { jvm, future, .. } = self; jvm.attach_current_thread(): on Err, log and return.
JniAttach(t) ==
    /\ pc[t] = "jni_attach"
    /\ completer' = [completer EXCEPT ![t] = "Consumed"]
    /\ \E ok \in BOOLEAN :
          IF ok
          THEN /\ attach' = [attach EXCEPT ![t] = "ok"]
               /\ attached' = [attached EXCEPT ![t] = TRUE]
               /\ pc' = [pc EXCEPT ![t] = "jni_convert"]
               /\ UNCHANGED <<logs, released>>
          ELSE /\ attach' = [attach EXCEPT ![t] = "fail"]
               /\ logs' = [logs EXCEPT ![t] = @ \cup {"failed to attach to JVM"}]
               /\ released' = [released EXCEPT ![t] = @ \cup Release(FALSE)]
               /\ pc' = [pc EXCEPT ![t] = "done"]
               /\ UNCHANGED attached
    /\ UNCHANGED <<build, completeCalls, driverVars, armed, handle, futVars, input, result, conv,
                   throwable, calls, diag, panicOut>>

\* result.and_then(..) on an Err: the closure does not run, maybe_error is that Err.
JniSkipSuccess(t) ==
    /\ pc[t] = "jni_convert"
    /\ result[t].tag = "Err"
    /\ pc' = [pc EXCEPT ![t] = "jni_error"]
    /\ UNCHANGED <<build, completeCalls, driverVars, completerVars, futVars, completeVars, destVars,
                   obsVars>>

\* Mutant of JniConvert: a failed conversion is dropped instead of being reported.
JniConvertDropsError(t) ==
    /\ pc[t] = "jni_convert"
    /\ result[t].tag = "Ok"
    /\ \E o \in Outcomes, p \in Payloads :
          /\ result' = [result EXCEPT
                ![t] = CatchUnwindSync(ConvertInto(result[t].val, o, p))]
          /\ conv' = [conv EXCEPT ![t] = o]
          /\ pc' = [pc EXCEPT ![t] = IF o = "ok" THEN "jni_box" ELSE "jni_release"]
    /\ UNCHANGED <<build, completeCalls, driverVars, completerVars, futVars, input, attach, attached,
                   throwable, destVars, obsVars>>

\* Inside catch_unwind: result.convert_into(env)
JniConvert(t) ==
    /\ pc[t] = "jni_convert"
    /\ result[t].tag = "Ok"
    /\ \E o \in Outcomes, p \in Payloads :
          /\ result' = [result EXCEPT
                ![t] = CatchUnwindSync(ConvertInto(result[t].val, o, p))]
          /\ conv' = [conv EXCEPT ![t] = o]
          /\ pc' = [pc EXCEPT ![t] = IF o = "ok" THEN "jni_box" ELSE "jni_error"]
    /\ UNCHANGED <<build, completeCalls, driverVars, completerVars, futVars, input, attach, attached,
                   throwable, destVars, obsVars>>

\* Inside catch_unwind: box_primitive_if_needed(env, result.into())?
JniBox(t) ==
    /\ pc[t] = "jni_box"
    /\ \E o \in Outcomes, p \in Payloads :
          /\ result' = [result EXCEPT
                ![t] = CASE o = "ok" -> @
                         [] o = "err" -> Err(JniError("box_primitive_if_needed"))
                         [] o = "panic" -> CatchUnwindSync(Panic(p))]
          /\ pc' = [pc EXCEPT ![t] = IF o = "ok" THEN "jni_complete" ELSE "jni_error"]
    /\ UNCHANGED <<build, completeCalls, driverVars, completerVars, futVars, input, conv, attach,
                   attached, throwable, destVars, obsVars>>

\* A panic past the catch_unwind leaves complete: unwinding drops env (the thread
\* detaches), then future, then the argument extra_args_to_drop.
JniUnwind(t) ==
    /\ attached' = [attached EXCEPT ![t] = FALSE]
    /\ released' = [released EXCEPT ![t] = @ \cup Release(FALSE)]
    /\ panicOut' = [panicOut EXCEPT ![t] = "complete"]
    /\ pc' = [pc EXCEPT ![t] = "unwound"]

\* Mutant of JniCallComplete: the call is made outside catch_unwind.
JniCallCompleteUncaught(t) ==
    /\ pc[t] = "jni_complete"
    /\ \E o \in Outcomes :
          /\ calls' = [calls EXCEPT
                ![t] = Append(@, JavaCall(handle[t].future, "complete",
                                          result[t].val, NoErr, o))]
          /\ CASE o = "ok" ->
                    /\ result' = [result EXCEPT ![t] = OkUnit]
                    /\ pc' = [pc EXCEPT ![t] = "jni_error"]
                    /\ UNCHANGED <<attached, panicOut, released>>
               [] o = "err" ->
                    /\ result' = [result EXCEPT ![t] = Err(JniError("complete"))]
                    /\ pc' = [pc EXCEPT ![t] = "jni_error"]
                    /\ UNCHANGED <<attached, panicOut, released>>
               [] o = "panic" ->
                    /\ JniUnwind(t)
                    /\ UNCHANGED result
    /\ UNCHANGED <<build, completeCalls, driverVars, completerVars, futVars, input, conv, attach,
                   throwable, logs, diag>>

\* Mutant of JniCallComplete: a `complete` that returned is reported as failed.
JniCallCompleteOkAsErr(t) ==
    /\ pc[t] = "jni_complete"
    /\ \E o \in Outcomes, p \in Payloads :
          /\ calls' = [calls EXCEPT
                ![t] = Append(@, JavaCall(handle[t].future, "complete",
                                          result[t].val, NoErr, o))]
          /\ result' = [result EXCEPT
                ![t] = CASE o = "ok" -> Err(JniError("complete"))
                         [] o = "err" -> Err(JniError("complete"))
                         [] o = "panic" -> CatchUnwindSync(Panic(p))]
    /\ pc' = [pc EXCEPT ![t] = "jni_error"]
    /\ UNCHANGED <<build, completeCalls, driverVars, completerVars, futVars, input, conv, attach,
                   attached, throwable, logs, obsVars>>

\* Inside catch_unwind: call_method_checked(env, future, "complete", ..).map(|_| ())
JniCallComplete(t) ==
    /\ pc[t] = "jni_complete"
    /\ \E o \in Outcomes, p \in Payloads :
          /\ calls' = [calls EXCEPT
                ![t] = Append(@, JavaCall(handle[t].future, "complete",
                                          result[t].val, NoErr, o))]
          /\ result' = [result EXCEPT
                ![t] = CASE o = "ok" -> OkUnit
                         [] o = "err" -> Err(JniError("complete"))
                         [] o = "panic" -> CatchUnwindSync(Panic(p))]
    /\ pc' = [pc EXCEPT ![t] = "jni_error"]
    /\ UNCHANGED <<build, completeCalls, driverVars, completerVars, futVars, input, conv, attach,
                   attached, throwable, logs, obsVars>>

\* maybe_error.unwrap_or_else(..) on Ok(()): nothing to report.
JniNoError(t) ==
    /\ pc[t] = "jni_error"
    /\ result[t].tag = "Ok"
    /\ pc' = [pc EXCEPT ![t] = "jni_release"]
    /\ UNCHANGED <<build, completeCalls, driverVars, completerVars, futVars, completeVars, destVars,
                   obsVars>>

\* convert_to_exception(&mut env, error, ..): it hands the closure Ok(throwable) or
\* Err(..), or it panics; on Err the closure only logs.
JniConvertToException(t) ==
    /\ pc[t] = "jni_error"
    /\ result[t].tag = "Err"
    /\ \E o \in Outcomes :
          /\ throwable' = [throwable EXCEPT ![t] = o]
          /\ CASE o = "ok" ->
                    /\ pc' = [pc EXCEPT ![t] = "jni_except"]
                    /\ UNCHANGED <<attached, logs, panicOut, released>>
               [] o = "err" ->
                    /\ logs' = [logs EXCEPT
                          ![t] = @ \cup {"failed to complete Future with error"}]
                    /\ pc' = [pc EXCEPT ![t] = "jni_release"]
                    /\ UNCHANGED <<attached, panicOut, released>>
               [] o = "panic" ->
                    /\ JniUnwind(t)
                    /\ UNCHANGED logs
    /\ UNCHANGED <<build, completeCalls, driverVars, completerVars, futVars, input, result, conv,
                   attach, calls, diag>>

\* Mutant of JniCallCompleteExceptionally: a failed call is made a second time.
JniCallCompleteExceptionallyRetries(t) ==
    /\ pc[t] = "jni_except"
    /\ \E o \in Outcomes :
          /\ calls' = [calls EXCEPT
                ![t] = Append(@, JavaCall(handle[t].future, "completeExceptionally",
                                          NULL, result[t].err, o))]
          /\ CASE o = "ok" ->
                    /\ pc' = [pc EXCEPT ![t] = "jni_release"]
                    /\ UNCHANGED <<attached, logs, panicOut, released>>
               [] o = "err" ->
                    /\ logs' = [logs EXCEPT
                          ![t] = @ \cup {"failed to complete Future with error"}]
                    /\ pc' = [pc EXCEPT
                          ![t] = IF calls[t] = <<>> THEN "jni_except" ELSE "jni_release"]
                    /\ UNCHANGED <<attached, panicOut, released>>
               [] o = "panic" ->
                    /\ JniUnwind(t)
                    /\ UNCHANGED logs
    /\ UNCHANGED <<build, completeCalls, driverVars, completerVars, futVars, input, result, conv,
                   attach, throwable, diag>>

\* call_method_checked(env, &future, "completeExceptionally", ..) and, on Err, the log.
JniCallCompleteExceptionally(t) ==
    /\ pc[t] = "jni_except"
    /\ \E o \in Outcomes :
          /\ calls' = [calls EXCEPT
                ![t] = Append(@, JavaCall(handle[t].future, "completeExceptionally",
                                          NULL, result[t].err, o))]
          /\ CASE o = "ok" ->
                    /\ pc' = [pc EXCEPT ![t] = "jni_release"]
                    /\ UNCHANGED <<attached, logs, panicOut, released>>
               [] o = "err" ->
                    /\ logs' = [logs EXCEPT
                          ![t] = @ \cup {"failed to complete Future with error"}]
                    /\ pc' = [pc EXCEPT ![t] = "jni_release"]
                    /\ UNCHANGED <<attached, panicOut, released>>
               [] o = "panic" ->
                    /\ JniUnwind(t)
                    /\ UNCHANGED logs
    /\ UNCHANGED <<build, completeCalls, driverVars, completerVars, futVars, input, result, conv,
                   attach, throwable, diag>>

\* drop(future); drop(extra_args_to_drop); and env is dropped by the return.
JniRelease(t) ==
    /\ pc[t] = "jni_release"
    /\ released' = [released EXCEPT ![t] = @ \cup Release(attached[t])]
    /\ attached' = [attached EXCEPT ![t] = FALSE]
    /\ pc' = [pc EXCEPT ![t] = "done"]
    /\ UNCHANGED <<build, completeCalls, driverVars, completerVars, futVars, input, result, conv,
                   attach, throwable, destVars, diag, panicOut>>

\* ------------------------------------------------------------ specification
Step(t) ==
    \/ FfiRunFutureOnRuntime(t)
    \/ JniRunFutureOnRuntime(t)
    \/ \E w \in Threads : PollPending(t, w)
    \/ \E w \in Threads : PollReady(t, w)
    \/ \E w \in Threads : PollReturns(t, w)
    \/ \E w \in Threads : PollPanics(t, w)
    \/ RuntimeDrops(t)
    \/ FfiForget(t)
    \/ FfiConvert(t)
    \/ FfiDeliver(t)
    \/ JniAttach(t)
    \/ JniSkipSuccess(t)
    \/ JniConvert(t)
    \/ JniBox(t)
    \/ JniCallComplete(t)
    \/ JniNoError(t)
    \/ JniConvertToException(t)
    \/ JniCallCompleteExceptionally(t)
    \/ JniRelease(t)

\* One call of run_future_on_runtime and the computation it spawns.
Next == Step(1)

Spec == Init /\ [][Next]_vars

\* The steps of task t when the runtime never drops a spawned computation.
StepLive(t) ==
    \/ FfiRunFutureOnRuntime(t)
    \/ JniRunFutureOnRuntime(t)
    \/ \E w \in Threads : PollPending(t, w)
    \/ \E w \in Threads : PollReady(t, w)
    \/ \E w \in Threads : PollReturns(t, w)
    \/ \E w \in Threads : PollPanics(t, w)
    \/ FfiForget(t)
    \/ FfiConvert(t)
    \/ FfiDeliver(t)
    \/ JniAttach(t)
    \/ JniSkipSuccess(t)
    \/ JniConvert(t)
    \/ JniBox(t)
    \/ JniCallComplete(t)
    \/ JniNoError(t)
    \/ JniConvertToException(t)
    \/ JniCallCompleteExceptionally(t)
    \/ JniRelease(t)

NextLive == StepLive(1)

\* The runtime polls a spawned computation again as long as it is not finished, and
\* the worker thread inside complete runs on: no step that stays possible is put
\* off for ever.
SpecLive == Init /\ [][NextLive]_vars /\ WF_vars(NextLive)

\* The computations of task t when several run side by side: complete(isolate(inner))
\* with an inner computation that returns a value of its own, Ok(t).
TaskFutures(t) ==
    {MakeFuture(TRUE, TRUE, steps, Ret(Ok(t))) : steps \in 0..MaxSteps}

\* The steps of task t among several: the Driver is called with any context, the
\* runtime polls on any worker thread and drops nothing.
StepAll(t) ==
    \/ FfiRunWith(t, Contexts, TaskFutures(t))
    \/ JniRunWith(t, TaskFutures(t))
    \/ \E w \in Threads : PollPending(t, w)
    \/ \E w \in Threads : PollReady(t, w)
    \/ FfiForget(t)
    \/ FfiConvert(t)
    \/ FfiDeliver(t)
    \/ JniAttach(t)
    \/ JniConvert(t)
    \/ JniBox(t)
    \/ JniCallComplete(t)
    \/ JniNoError(t)
    \/ JniConvertToException(t)
    \/ JniCallCompleteExceptionally(t)
    \/ JniRelease(t)

\* Every task is one call of run_future_on_runtime; their steps interleave freely.
NextAll == \E t \in Tasks : StepAll(t)

SpecAll == Init /\ [][NextAll]_vars

\* ------------------------------------------------------------------ claims
\* The invocations of the destination that returned: what the destination received.
Notified(t) ==
    Cardinality({i \in DOMAIN calls[t] : calls[t][i].outcome = "ok"})

\* The invocations of operation op on the destination of task t.
Invoked(t, op) ==
    Cardinality({i \in DOMAIN calls[t] : calls[t][i].op = op})

\* complete was called and has returned.
Returned(t) == pc[t] = "done"

\* The Completer was dropped without complete having been called.
Discarded(t) == pc[t] \in {"dropped", "halted"}

\* C1 as stated: whenever complete has returned, in either variant, the destination
\* has received exactly one notification.
C1_ExactlyOneAlways ==
    \A t \in Tasks : Returned(t) => Notified(t) = 1

\* C1 amended: the destination never receives more than one notification; in the
\* callback variant it has received exactly one (one call of promise) when complete
\* returns; in the managed-runtime variant it has received exactly one when complete
\* returns without having logged a failure, and none when complete logged one
\* (attachment failed, or the error could not be delivered) or unwound with a panic.
C1_ExactlyOnceUnlessLogged ==
    \A t \in Tasks :
        /\ Notified(t) <= 1
        /\ (variant[t] = "ffi" /\ Returned(t)) =>
              (Len(calls[t]) = 1 /\ Notified(t) = 1 /\ logs[t] = {})
        /\ (variant[t] = "jni" /\ Returned(t)) =>
              (Notified(t) = 1 <=> logs[t] = {})
        /\ attach[t] = "fail" => Notified(t) = 0
        /\ pc[t] = "unwound" => Notified(t) = 0

\* A callback complete has returned after a conversion that panicked.
C1_Witness ==
    \E t \in Tasks :
        /\ variant[t] = "ffi" /\ Returned(t) /\ conv[t] = "panic" /\ Notified(t) = 1

\* C2: every call of promise made by PromiseCompleter::complete has exactly one of
\* the error and result slots populated; the result slot is populated only when the
\* input was a success whose conversion returned a value, and it is that value; the
\* context argument is the context stored in the Completer.
C2_OneSlotPopulated ==
    \A t \in Tasks : \A i \in DOMAIN calls[t] :
        variant[t] = "ffi" =>
            LET c == calls[t][i]
            IN  /\ c.op = "promise"
                /\ (c.error = NoErr) # (c.result = NULL)
                /\ c.result # NULL =>
                      /\ input[t].tag = "Ok"
                      /\ conv[t] = "ok"
                      /\ c.result = Convert(input[t].val)
                /\ c.error # NoErr =>
                      (input[t].tag = "Err" \/ conv[t] \in {"err", "panic"})
                /\ c.context = handle[t].context

\* promise was called with an error for a domain error given to complete.
C2_Witness ==
    \E t \in Tasks :
        /\ variant[t] = "ffi" /\ Len(calls[t]) = 1
        /\ calls[t][1].error.kind = "Domain" /\ calls[t][1].result = NULL
        /\ calls[t][1].context = "ctxB"

C4_EveryDiscardDiagnosed ==
    \A t \in Tasks :
        Discarded(t) => (diag[t] # "none" /\ calls[t] = <<>>)

\* C4 amended: a PromiseCompleter discarded without complete fires the leak
\* diagnostic (the debug assertion, or the error log of a release build); a
\* FutureCompleter has no leak diagnostic and discarding it fires none; in both
\* variants the destination then receives no notification.
C4_DiscardDiagnosedForCallback ==
    \A t \in Tasks :
        Discarded(t) =>
            /\ calls[t] = <<>>
            /\ variant[t] = "ffi" =>
                  /\ completer[t] = "LeakDiagnosed"
                  /\ diag[t] = (IF build = "debug" THEN "assert" ELSE "log")
                  /\ build = "release" =>
                        "CPromise dropped without completing" \in logs[t]
            /\ variant[t] = "jni" =>
                  (completer[t] = "Dropped" /\ diag[t] = "none" /\ logs[t] = {})

\* A PromiseCompleter was dropped by a computation that returned without completing.
C4_Witness ==
    \E t \in Tasks :
        /\ variant[t] = "ffi" /\ Discarded(t) /\ diag[t] = "log"
        /\ output[t] # NoResult

\* complete was called and was left, by returning or by unwinding.
Finished(t) == pc[t] \in {"done", "unwound"}

\* The computation was polled to its end and its end is a panic.
PanickedBeforeComplete(t) ==
    /\ fut[t].callsComplete
    /\ fut[t].end.kind = "panic"
    /\ (output[t] # NoResult \/ panicOut[t] = "computation")

\* C5 as stated: a computation run through the callback Driver that panics before
\* calling complete ends with exactly one recorded call: error present and tagged
\* UnexpectedPanic, result absent.
C5_PanicAlwaysDelivered ==
    \A t \in Tasks :
        (variant[t] = "ffi" /\ PanickedBeforeComplete(t)
            /\ pc[t] \in {"done", "dropped", "halted"}) =>
            calls[t] = <<PromiseArgs(Err(UnexpectedPanic(fut[t].end.payload)),
                                     handle[t].context)>>

\* C5 amended: the callback Driver does not isolate the computation it spawns. A
\* computation that wraps its panicking part in catch_unwind and passes the output
\* to complete records exactly one call once complete has returned, error present
\* and tagged UnexpectedPanic with the payload, result absent, and no panic leaves
\* it; a computation that panics outside catch_unwind drops its Completer: the
\* callback is never called and the leak diagnostic fires.
C5_IsolatedPanicDelivered ==
    \A t \in Tasks :
        (variant[t] = "ffi" /\ fut[t].callsComplete /\ fut[t].end.kind = "panic") =>
            /\ Len(calls[t]) <= 1
            /\ fut[t].isolated =>
                  /\ panicOut[t] = "none"
                  /\ Returned(t) =>
                        calls[t] = <<[outcome |-> "ok", op |-> "promise",
                                      target |-> NULL,
                                      error |-> UnexpectedPanic(fut[t].end.payload),
                                      result |-> NULL,
                                      context |-> handle[t].context]>>
            /\ (~fut[t].isolated /\ panicOut[t] = "computation") =>
                  (calls[t] = <<>> /\ diag[t] # "none" /\ Discarded(t))

\* An isolated computation panicked after a suspension and the callback got the error.
C5_Witness ==
    \E t \in Tasks :
        /\ variant[t] = "ffi" /\ fut[t].isolated /\ fut[t].end.kind = "panic"
        /\ Returned(t) /\ Len(calls[t]) = 1
        /\ calls[t][1].error = UnexpectedPanic("bang")

\* C6: a computation wrapped by catch_unwind never lets a panic of its polls out; if
\* the inner computation panics its output is Err(UnexpectedPanic(payload)) with the
\* payload of that panic, and otherwise it is the inner computation's own result.
C6_CatchUnwindIsolates ==
    \A t \in Tasks :
        fut[t].isolated =>
            /\ panicOut[t] # "computation"
            /\ pc[t] = "spawned" => PollComputation(variant[t], fut[t]).kind # "panic"
            /\ output[t] # NoResult =>
                  output[t] = (IF fut[t].end.kind = "panic"
                               THEN Err(UnexpectedPanic(fut[t].end.payload))
                               ELSE fut[t].end.res)

\* A wrapped computation of the managed-runtime variant panicked and yielded the error.
C6_Witness ==
    \E t \in Tasks :
        /\ variant[t] = "jni" /\ fut[t].isolated /\ fut[t].end = Panic("bang")
        /\ worker[t] # 0
        /\ output[t] = Err(UnexpectedPanic("bang"))

\* complete was given a success value and its conversion panicked.
ConversionPanicked(t) ==
    input[t].tag = "Ok" /\ conv[t] = "panic"

\* The isolated computation panicked and complete was given its Err(UnexpectedPanic).
ComputationPanicked(t) ==
    /\ fut[t].isolated
    /\ fut[t].end.kind = "panic"
    /\ input[t] = Err(UnexpectedPanic(fut[t].end.payload))

\* C7 as stated: after a panic of the conversion, and after a panic of the isolated
\* computation, the destination has received exactly one error notification tagged
\* UnexpectedPanic and no success notification.
C7_PanicAlwaysNotified ==
    \A t \in Tasks :
        (Finished(t) /\ (ConversionPanicked(t) \/ ComputationPanicked(t))) =>
            /\ Len(calls[t]) = 1
            /\ calls[t][1].error.kind = "UnexpectedPanic"
            /\ calls[t][1].result = NULL
            /\ calls[t][1].outcome = "ok"

\* C7 amended: what the destination sees after a panic of the conversion is what it
\* sees after a panic of the isolated computation, by the same rule: no success
\* notification; in the callback variant exactly one call, with the error
\* UnexpectedPanic(payload) and no result; in the managed-runtime variant one call of
\* completeExceptionally with that error when the thread attached and the throwable
\* was built, and no call at all otherwise.
C7_PanicsIndistinguishable ==
    \A t \in Tasks :
        (Finished(t) /\ (ConversionPanicked(t) \/ ComputationPanicked(t))) =>
            /\ result[t].tag = "Err"
            /\ result[t].err.kind = "UnexpectedPanic"
            /\ result[t].err.info \in Payloads
            /\ ComputationPanicked(t) => result[t].err.info = fut[t].end.payload
            /\ \A i \in DOMAIN calls[t] : calls[t][i].result = NULL
            /\ variant[t] = "ffi" =>
                  calls[t] = <<PromiseArgs(Err(result[t].err), handle[t].context)>>
            /\ (variant[t] = "jni" /\ attach[t] = "ok" /\ throwable[t] = "ok") =>
                  /\ Len(calls[t]) = 1
                  /\ calls[t][1].op = "completeExceptionally"
                  /\ calls[t][1].error = result[t].err
            /\ (variant[t] = "jni" /\ ~(attach[t] = "ok" /\ throwable[t] = "ok")) =>
                  calls[t] = <<>>

\* The conversion panicked in the managed-runtime variant and the error was delivered.
C7_Witness ==
    \E t \in Tasks :
        /\ variant[t] = "jni" /\ Returned(t) /\ ConversionPanicked(t)
        /\ Len(calls[t]) = 1 /\ calls[t][1].outcome = "ok"
        /\ calls[t][1].error.kind = "UnexpectedPanic"

\* C8: in jni::run_future_on_runtime, when new_object or FutureCompleter::new fails
\* the Driver returns that failure, make_future is not called, nothing is handed to
\* the runtime and no leak diagnostic fires; when both succeed make_future is called
\* once, one computation is handed to the runtime, and the returned future object is
\* the one the Completer holds a reference to.
C8_DriverFailsBeforeSpawn ==
    \A t \in Tasks :
        variant[t] = "jni" =>
            /\ driverRet[t].tag \in {"Ok", "Err"}
            /\ driverRet[t].tag = "Err" =>
                  /\ pc[t] = "driver_failed"
                  /\ driverRet[t].err.kind = "Jni"
                  /\ makeCalls[t] = 0 /\ runCalls[t] = 0
                  /\ completer[t] = "none" /\ fut[t] = NoFuture
                  /\ diag[t] = "none" /\ logs[t] = {} /\ calls[t] = <<>>
            /\ driverRet[t].tag = "Ok" =>
                  /\ pc[t] # "driver_failed"
                  /\ makeCalls[t] = 1 /\ runCalls[t] = 1
                  /\ jobject[t] # NULL
                  /\ driverRet[t].val = jobject[t]
                  /\ handle[t].future = driverRet[t].val

\* The future object was created and the global reference to it could not be.
C8_Witness ==
    \E t \in Tasks :
        /\ variant[t] = "jni" /\ jobject[t] # NULL
        /\ driverRet[t] = Err(JniError("new_global_ref"))

\* C9: when attach_current_thread fails inside complete, no operation of the future
\* object is invoked for that Completer, then or later, the failure is logged, and
\* complete has returned without a panic.
C9_AttachFailureIsSilent ==
    \A t \in Tasks :
        attach[t] = "fail" =>
            /\ calls[t] = <<>>
            /\ "failed to attach to JVM" \in logs[t]
            /\ Returned(t)
            /\ panicOut[t] = "none"
            /\ completer[t] = "Consumed"

\* Attachment failed for a Completer that was given a success value.
C9_Witness ==
    \E t \in Tasks :
        /\ variant[t] = "jni" /\ attach[t] = "fail" /\ input[t].tag = "Ok"
        /\ Returned(t)

\* A call of `complete` on the future panicked.
CompleteCallPanicked(t) ==
    \E i \in DOMAIN calls[t] :
        calls[t][i].op = "complete" /\ calls[t][i].outcome = "panic"

\* C10 as stated: no panic raised during complete leaves complete, in either variant.
C10_NoPanicLeavesComplete ==
    \A t \in Tasks : panicOut[t] # "complete"

\* C10 amended: a panic of the value conversion or of the call of the future's
\* `complete` is caught and becomes an UnexpectedPanic error that is delivered or
\* whose delivery failure is logged, in both variants; no panic leaves
\* PromiseCompleter::complete; a panic leaves FutureCompleter's complete exactly when
\* it is raised past the catch_unwind, by convert_to_exception or by the call of
\* `completeExceptionally`.
C10_OnlyErrorPathPanicsLeave ==
    \A t \in Tasks :
        /\ variant[t] = "ffi" => panicOut[t] # "complete"
        /\ panicOut[t] = "complete" <=>
              \/ throwable[t] = "panic"
              \/ /\ calls[t] # <<>>
                 /\ calls[t][Len(calls[t])].op = "completeExceptionally"
                 /\ calls[t][Len(calls[t])].outcome = "panic"
        /\ (Returned(t) /\ (conv[t] = "panic" \/ CompleteCallPanicked(t))) =>
              \/ /\ calls[t] # <<>>
                 /\ calls[t][Len(calls[t])].error.kind = "UnexpectedPanic"
                 /\ calls[t][Len(calls[t])].outcome = "ok"
              \/ "failed to complete Future with error" \in logs[t]

\* The call of `complete` panicked, was caught, and the error was delivered.
C10_Witness ==
    \E t \in Tasks :
        /\ Returned(t) /\ CompleteCallPanicked(t) /\ Len(calls[t]) = 2
        /\ calls[t][2].error.kind = "UnexpectedPanic" /\ calls[t][2].outcome = "ok"

\* C11: a computation that calls complete(Ok(v)) for a v whose conversion returns a
\* value, run through the callback Driver and polled on any worker thread, ends
\* with exactly one recorded call: error absent, result the conversion of v, and
\* the context the promise_context the Driver was given.
C11_OkDeliveredWithContext ==
    \A t \in Tasks :
        (variant[t] = "ffi" /\ Returned(t) /\ input[t].tag = "Ok" /\ conv[t] = "ok") =>
            /\ fut[t].end.kind = "ret" => input[t] = fut[t].end.res
            /\ calls[t] = <<[outcome |-> "ok", op |-> "promise",
                             target |-> NULL,
                             error |-> NoErr,
                             result |-> Convert(input[t].val),
                             context |-> givenContext[t]]>>

\* Ok(2) was completed on worker 2 for the context ctxB.
C11_Witness ==
    \E t \in Tasks :
        /\ variant[t] = "ffi" /\ Returned(t) /\ worker[t] = 2
        /\ fut[t].end = Ret(Ok(2)) /\ givenContext[t] = "ctxB"
        /\ Len(calls[t]) = 1 /\ calls[t][1].result = Convert(2)

\* C12 as stated: on every path of complete_with_extra_args_to_drop, the Completer's
\* reference to the future and extra_args_to_drop are released while the thread is
\* attached to the JVM, and never while it is not.
C12_ReleasedWhileAttached ==
    \A t \in Tasks :
        (variant[t] = "jni" /\ Finished(t)) => released[t] = Release(TRUE)

\* C13: a PromiseCompleter dropped without being completed halts on the assertion in
\* a debug build, without logging; in a release build it logs an error and keeps
\* running; the callback is called in neither, whatever dropped the Completer.
C13_LeakByBuildMode ==
    \A t \in Tasks :
        (variant[t] = "ffi" /\ Discarded(t)) =>
            /\ calls[t] = <<>>
            /\ completeCalls[t] = 0
            /\ build = "debug" =>
                  (pc[t] = "halted" /\ diag[t] = "assert" /\ logs[t] = {})
            /\ build = "release" =>
                  /\ pc[t] = "dropped"
                  /\ diag[t] = "log"
                  /\ logs[t] = {"CPromise dropped without completing"}

\* A debug build halted when the runtime dropped a computation it had polled.
C13_Witness ==
    \E t \in Tasks :
        /\ variant[t] = "ffi" /\ build = "debug" /\ pc[t] = "halted"
        /\ worker[t] # 0 /\ output[t] = NoResult /\ panicOut[t] = "none"

\* Conversion or delivery has started for the Completer of task t.
ConversionOrDeliveryStarted(t) ==
    \/ conv[t] # "none"
    \/ calls[t] # <<>>
    \/ pc[t] \in {"ffi_convert", "ffi_deliver", "jni_convert", "jni_box",
                  "jni_complete", "jni_error", "jni_except", "jni_release",
                  "done", "unwound"}

\* C14: whenever value conversion or delivery has started for a Completer, its leak
\* check is already disarmed and the Completer is consumed; a Completer on which
\* complete was called is never reported as leaked, also when conversion panics or
\* delivery fails.
C14_DisarmedBeforeFallibleSteps ==
    \A t \in Tasks :
        /\ ConversionOrDeliveryStarted(t) =>
              (~armed[t] /\ completer[t] = "Consumed" /\ diag[t] = "none")
        /\ completeCalls[t] > 0 =>
              (diag[t] = "none" /\ completer[t] \in {"Created", "Consumed"})

\* The conversion of a PromiseCompleter panicked and the delivery is still to come.
C14_Witness ==
    \E t \in Tasks :
        /\ variant[t] = "ffi" /\ pc[t] = "ffi_deliver" /\ conv[t] = "panic"
        /\ ~armed[t]

\* C15 as stated: a Completer is Created, Consumed or LeakDiagnosed, and it is
\* LeakDiagnosed, with the diagnostic fired, whenever it was dropped without complete.
C15_ConsumedOrLeakDiagnosed ==
    \A t \in Tasks :
        \/ completer[t] \in {"none", "Created", "Consumed"}
        \/ completer[t] = "LeakDiagnosed" /\ diag[t] # "none"

\* The step of the Completer of task t is one of the state machine's transitions.
CompleterTransition(t) ==
    LET a == completer[t]
        b == completer'[t]
    IN  /\ \/ a = b
           \/ a = "none" /\ b = "Created"
           \/ a = "Created" /\ b = "Consumed" /\ completeCalls'[t] = 1
           \/ /\ a = "Created" /\ b = "LeakDiagnosed"
              /\ variant[t] = "ffi" /\ completeCalls'[t] = 0 /\ diag'[t] # "none"
           \/ /\ a = "Created" /\ b = "Dropped"
              /\ variant[t] = "jni" /\ completeCalls'[t] = 0 /\ diag'[t] = "none"
        /\ completeCalls'[t] <= 1
        /\ completeCalls'[t] # completeCalls[t] => a = "Created"

\* C15 amended: a Completer leaves Created only by complete, to Consumed, or by being
\* dropped without complete: to LeakDiagnosed for a PromiseCompleter, and to a
\* dropped state in which no diagnostic has fired for a FutureCompleter. These
\* states are terminal and exclusive, and complete is called at most once for a
\* Completer, whatever threads poll the computation.
C15_CompleterStateMachine ==
    [][\A t \in Tasks : CompleterTransition(t)]_vars

\* A FutureCompleter was consumed by its one call of complete on worker 2.
C15_Witness ==
    \E t \in Tasks :
        /\ variant[t] = "jni" /\ completer[t] = "Consumed" /\ completeCalls[t] = 1
        /\ worker[t] = 2 /\ Returned(t)

\* C16: when complete is called with a domain error, the conversion is never run,
\* the success path of the destination is never invoked (no call carries a result,
\* and no call is the future's complete), and every error handed to the destination
\* is that same domain error.
C16_DomainErrorPassesThrough ==
    \A t \in Tasks :
        (input[t].tag = "Err" /\ input[t].err.kind = "Domain") =>
            /\ conv[t] = "none"
            /\ result[t] = input[t]
            /\ \A i \in 1..Len(calls[t]) :
                  /\ calls[t][i].op # "complete"
                  /\ calls[t][i].result = NULL
                  /\ calls[t][i].error = input[t].err

\* A FutureCompleter was given a domain error and returned after completeExceptionally
\* accepted it.
C16_Witness ==
    \E t \in Tasks :
        /\ variant[t] = "jni" /\ input[t] = Err(DomainError("domain"))
        /\ Returned(t) /\ Notified(t) = 1

\* The protected success path of the FutureCompleter of task t has failed: complete
\* was given an Ok, the thread attached, and maybe_error is an Err.
SuccessPathFailed(t) ==
    /\ variant[t] = "jni" /\ input[t].tag = "Ok" /\ attach[t] = "ok"
    /\ result[t].tag = "Err"

\* The errors a failed success path produces.
SuccessPathErrors ==
    {ConversionError, JniError("box_primitive_if_needed"), JniError("complete")}
        \cup {UnexpectedPanic(p) : p \in Payloads}

\* C17 as stated: after any failure of the success path, completeExceptionally is
\* invoked, once complete has finished, with the new error.
C17_FailureAlwaysReported ==
    \A t \in Tasks :
        (SuccessPathFailed(t) /\ Finished(t)) =>
            /\ Invoked(t, "completeExceptionally") = 1
            /\ calls[t][Len(calls[t])].error = result[t].err

\* C17 amended: a failure of the success path produces a new error (UnexpectedPanic
\* exactly for a panic) and enters the error path with it; completeExceptionally is
\* invoked with that error exactly when the throwable for it was built, it is the
\* last call, it is made once, and it is never made while the success path has not
\* failed. When the throwable cannot be built, nothing is invoked.
C17_FailureRestartsOnErrorPath ==
    \A t \in Tasks :
        (variant[t] = "jni" /\ input[t].tag = "Ok") =>
            /\ \A i \in 1..Len(calls[t]) :
                  calls[t][i].op = "completeExceptionally" =>
                      /\ SuccessPathFailed(t)
                      /\ throwable[t] = "ok"
                      /\ i = Len(calls[t])
                      /\ calls[t][i].error = result[t].err
            /\ SuccessPathFailed(t) =>
                  /\ result[t].err \in SuccessPathErrors
                  /\ conv[t] = "err" => result[t].err = ConversionError
                  /\ conv[t] = "panic" => result[t].err.kind = "UnexpectedPanic"
                  /\ (calls[t] # <<>> /\ calls[t][1].op = "complete") =>
                        /\ calls[t][1].outcome # "ok"
                        /\ calls[t][1].outcome = "err" => result[t].err = JniError("complete")
                        /\ calls[t][1].outcome = "panic" =>
                              result[t].err.kind = "UnexpectedPanic"
                  /\ pc[t] \in {"jni_error", "jni_except", "jni_release", "done", "unwound"}
                  /\ pc[t] \in {"jni_except", "jni_release", "done"} =>
                        /\ throwable[t] \in {"ok", "err"}
                        /\ throwable[t] = "err" => Invoked(t, "completeExceptionally") = 0
                  /\ (pc[t] \in {"jni_release", "done"} /\ throwable[t] = "ok") =>
                        Invoked(t, "completeExceptionally") = 1

\* The call of the future's complete panicked, the panic was caught, and
\* completeExceptionally accepted the UnexpectedPanic error.
C17_Witness ==
    \E t \in Tasks :
        /\ SuccessPathFailed(t) /\ Returned(t)
        /\ Len(calls[t]) = 2
        /\ calls[t][1].op = "complete" /\ calls[t][1].outcome = "panic"
        /\ calls[t][2].op = "completeExceptionally" /\ calls[t][2].outcome = "ok"
        /\ calls[t][2].error.kind = "UnexpectedPanic"

\* While the FutureCompleter of task t was reporting an error, building the
\* throwable returned an error, or completeExceptionally did.
SecondaryFailure(t) ==
    /\ variant[t] = "jni"
    /\ \/ throwable[t] = "err"
       \/ \E i \in 1..Len(calls[t]) :
             calls[t][i].op = "completeExceptionally" /\ calls[t][i].outcome = "err"

\* C18: a secondary failure is logged and nothing else: completeExceptionally is not
\* called again and the future's complete is not called after it, no panic or error
\* leaves complete, and all that is left for complete to do is to release future and
\* extra_args, which it does while the thread is attached.
C18_SecondaryFailureOnlyLogged ==
    \A t \in Tasks :
        SecondaryFailure(t) =>
            /\ "failed to complete Future with error" \in logs[t]
            /\ Invoked(t, "completeExceptionally") <= 1
            /\ \A i \in 1..Len(calls[t]) :
                  calls[t][i].op = "completeExceptionally" => i = Len(calls[t])
            /\ throwable[t] = "err" => Invoked(t, "completeExceptionally") = 0
            /\ Notified(t) = 0
            /\ panicOut[t] = "none"
            /\ pc[t] \in {"jni_release", "done"}
            /\ Returned(t) => released[t] = Release(TRUE)

\* completeExceptionally returned an error while reporting a domain error, and
\* complete has returned.
C18_Witness ==
    \E t \in Tasks :
        /\ SecondaryFailure(t) /\ Returned(t)
        /\ input[t].tag = "Err"
        /\ Invoked(t, "completeExceptionally") = 1

\* The computation of task t is complete(isolate(inner)).
IsolatedAndCompleting(t) ==
    /\ pc[t] # "idle" /\ driverRet[t].tag # "Err"
    /\ fut[t].isolated /\ fut[t].callsComplete

\* C19: on a runtime that keeps polling and never drops a computation, a spawned
\* complete(isolate(inner)) always leads to its Completer being Consumed by the one
\* call of complete, whatever inner does, and along the way the Completer is never
\* dropped, complete is never called twice and the leak diagnostic never fires.
C19_IsolatedEventuallyConsumed ==
    /\ [](\A t \in Tasks :
            IsolatedAndCompleting(t) =>
                /\ diag[t] = "none"
                /\ completeCalls[t] <= 1
                /\ completer[t] \in {"Created", "Consumed"}
                /\ completer[t] = "Consumed" => completeCalls[t] = 1)
    /\ \A t \in Tasks :
          (pc[t] = "spawned" /\ IsolatedAndCompleting(t))
              ~> (completer[t] = "Consumed" /\ completeCalls[t] = 1)

\* An isolated inner computation panicked at its last poll, the panic reached
\* complete as an UnexpectedPanic error and the Completer was consumed.
C19_Witness ==
    \E t \in Tasks :
        /\ IsolatedAndCompleting(t)
        /\ fut[t].end.kind = "panic" /\ fut[t].steps = 0
        /\ input[t].tag = "Err" /\ input[t].err.kind = "UnexpectedPanic"
        /\ completer[t] = "Consumed" /\ completeCalls[t] = 1

\* C20 as stated: while two Completers are both live they never hold the same
\* destination handle, and no destination is called by two computations.
C20_HandlesNeverShared ==
    \A t, u \in Tasks :
        (t # u /\ completer[t] # "none" /\ completer[u] # "none") =>
            /\ handle[t] # handle[u]
            /\ \A i \in 1..Len(calls[t]), j \in 1..Len(calls[u]) :
                  <<calls[t][i].target, calls[t][i].context>>
                      # <<calls[u][j].target, calls[u][j].context>>

\* C20 amended: a FutureCompleter holds the Java future its own Driver call
\* created, which no other Completer holds; a PromiseCompleter holds the context its
\* Driver call was given, which is the caller's to keep distinct. Under every
\* interleaving and on every worker thread each Completer calls only the handle it
\* holds, with nothing but its own computation's converted result or an error of its
\* own, and how often it notifies is fixed by its own outcomes alone.
C20_OwnHandleOwnResult ==
    \A t \in Tasks :
        /\ (variant[t] = "jni" /\ completer[t] # "none") =>
              /\ handle[t].future = jobject[t]
              /\ \A u \in Tasks \ {t} : handle[u].future # handle[t].future
        /\ (variant[t] = "ffi" /\ completer[t] # "none") =>
              /\ handle[t].context = givenContext[t]
              /\ \A u \in Tasks \ {t} :
                    givenContext[u] # givenContext[t] => handle[u] # handle[t]
        /\ \A i \in 1..Len(calls[t]) :
              /\ calls[t][i].target = handle[t].future
              /\ calls[t][i].context = handle[t].context
              /\ calls[t][i].result \in {NULL, Convert(output[t].val)}
              /\ calls[t][i].result # NULL => output[t] = Ok(t)
              /\ calls[t][i].error \in {NoErr, result[t].err}
        /\ (variant[t] = "ffi" /\ Returned(t)) => Notified(t) = 1
        /\ (variant[t] = "jni" /\ Returned(t)) =>
              Notified(t) = IF /\ calls[t] # <<>>
                               /\ calls[t][Len(calls[t])].outcome = "ok"
                            THEN 1 ELSE 0

\* Two computations ran side by side on different worker threads, one in each
\* variant, and each destination was notified once with its own converted result.
C20_Witness ==
    \E t, u \in Tasks :
        /\ t # u /\ variant[t] = "ffi" /\ variant[u] = "jni"
        /\ Returned(t) /\ Returned(u) /\ worker[t] # worker[u]
        /\ Notified(t) = 1 /\ Notified(u) = 1
        /\ calls[t][1].result = Convert(t) /\ calls[u][1].result = Convert(u)

====
